---- MODULE Spec2Model ----
(***************************************************************************)
(* Model of the cdrxiv file-uploader transfer pipeline: the S3-triggered   *)
(* Lambda handler that creates a Zenodo deposition and uploads the object. *)
(*                                                                         *)
(* Two deployed handlers are modelled:                                     *)
(*   "streaming" - src/aws-lambda/src/index.ts: one PUT of the whole       *)
(*                 stream followed by a HEAD probe of the final size;      *)
(*   "chunked"   - src/src/types.ts lines 259-437: a loop of ranged S3     *)
(*                 reads and Content-Range PUTs.                           *)
(* Every await in the code is one step of the model: the action that       *)
(* handles a response also runs the synchronous code up to the next await, *)
(* so it issues the next request.                                          *)
(***************************************************************************)
EXTENDS Integers, Sequences, FiniteSets, TLC

(***************************************************************************)
(* Program constants.                                                      *)
(***************************************************************************)
CHUNK_SIZE == 100 * 1024 * 1024

MAX_RETRIES == 3

RETRY_DELAY == 5000

(***************************************************************************)
(* Bounds of the model.                                                    *)
(***************************************************************************)
\* object sizes reach up to MaxChunks chunks
MaxChunks == 3

\* metadata operations called one after the other
MaxCalls == 1

\* records of one notification event
MaxRecords == 2

\* Marker for an absent number (ContentLength undefined, no Range header,
\* a probe that reports no well-formed size).
Undefined == -1

Variants == {"streaming", "chunked"}

\* Object sizes S3 may report: empty, tiny, and one byte either side of
\* every chunk boundary, plus the 250 MiB object of the documentation.
SizeSet ==
  {0, 1, 10, 250 * 1024 * 1024}
    \cup {k * CHUNK_SIZE + d : k \in 1..(MaxChunks - 1), d \in {-1, 0, 1}}

\* HTTP status codes the remote service answers with.
HttpStatuses == {200, 201, 403, 500}

(***************************************************************************)
(* Pure helpers of the code.                                               *)
(***************************************************************************)
Min(a, b) == IF a < b THEN a ELSE b

\* node-fetch Response.ok: status in the range 200-299
ResponseOkAny(status) == TRUE

ResponseOkBelow500(status) == status >= 200 /\ status < 500

ResponseOk(status) == status >= 200 /\ status =< 299

\* catch branch of fetchWithRetry: `if (retries > 0)`
RetryAllowedOffByOne(retries) == retries >= 0

RetryAllowed(retries) == retries > 0

\* `const end = Math.min(start + CHUNK_SIZE - 1, fileSize - 1)`
ChunkEndNoClamp(start, fileSize) == start + CHUNK_SIZE - 1

ChunkEnd(start, fileSize) == Min(start + CHUNK_SIZE - 1, fileSize - 1)

\* `const chunkSize = end - start + 1`
ChunkLengthExclusive(start, end) == end - start

ChunkLength(start, end) == end - start + 1

\* `while (start < fileSize)`
MoreChunks(start, fileSize) == start < fileSize

\* `start = end + 1`
NextStartOverlap(end) == end

NextStart(end) == end + 1

\* `!(Body instanceof Readable) || !ContentLength`: a ContentLength of 0 is
\* as falsy as an undefined one.
NoFileStreamIgnoresLength(bodyReadable, contentLength) == ~bodyReadable

NoFileStreamOnlyZero(bodyReadable, contentLength) ==
  ~bodyReadable \/ contentLength = 0

NoFileStream(bodyReadable, contentLength) ==
  ~bodyReadable \/ contentLength = Undefined \/ contentLength = 0

(***************************************************************************)
(* Strings are sequences of one-character strings.                         *)
(***************************************************************************)
DigitChars == <<"0", "1", "2", "3", "4", "5", "6", "7", "8", "9">>

IsDigit(c) == \E i \in 1..10 : DigitChars[i] = c

DigitValue(c) == (CHOOSE i \in 1..10 : DigitChars[i] = c) - 1

\* Number.prototype.toString() of a non-negative integer
RECURSIVE NumberToString(_)
NumberToString(n) ==
  IF n < 10 THEN <<DigitChars[n + 1]>>
  ELSE NumberToString(n \div 10) \o <<DigitChars[(n % 10) + 1]>>

RECURSIVE SkipWhitespace(_)
SkipWhitespace(s) ==
  IF s # <<>> /\ Head(s) = " " THEN SkipWhitespace(Tail(s)) ELSE s

\* the value of the longest prefix of digits of s, with acc the value read
\* so far
RECURSIVE ParseDigits(_, _)
ParseDigits(s, acc) ==
  IF s # <<>> /\ IsDigit(Head(s))
  THEN ParseDigits(Tail(s), acc * 10 + DigitValue(Head(s)))
  ELSE acc

\* parseInt(s, 10): leading white space is skipped, an optional sign is
\* read, then digits up to the first other character; NaN without a digit.
ParseInt(s) ==
  LET t == SkipWhitespace(s)
      neg == t # <<>> /\ Head(t) = "-"
      u == IF t # <<>> /\ Head(t) \in {"-", "+"} THEN Tail(t) ELSE t
  IN  IF u = <<>> \/ ~IsDigit(Head(u))
      THEN [nan |-> TRUE, val |-> 0]
      ELSE [nan |-> FALSE, val |-> IF neg THEN 0 - ParseDigits(u, 0)
                                         ELSE ParseDigits(u, 0)]

\* a response header: headers.get() returns null when it is absent
NoHeader == [present |-> FALSE, value |-> <<>>]

Header(s) == [present |-> TRUE, value |-> s]

\* `parseInt(finalResponse.headers.get('Content-Length') || '0', 10)`:
\* null and the empty string are both replaced by '0'.
FinalSize(header) ==
  IF ~header.present \/ header.value = <<>>
  THEN ParseInt(<<"0">>)
  ELSE ParseInt(header.value)

\* `finalSize !== fileSize`
SizeMismatchOnlyShort(finalSize, fileSize) ==
  finalSize.nan \/ finalSize.val < fileSize

SizeMismatch(finalSize, fileSize) ==
  finalSize.nan \/ finalSize.val # fileSize

(***************************************************************************)
(* The object key of the event and the file name derived from it.          *)
(***************************************************************************)
\* `key.replace(/\+/g, ' ')`
RECURSIVE PlusToSpace(_)
PlusToSpace(s) ==
  IF s = <<>> THEN <<>>
  ELSE <<IF Head(s) = "+" THEN " " ELSE Head(s)>> \o PlusToSpace(Tail(s))

HexChars ==
  {DigitChars[i] : i \in 1..10}
    \cup {"A", "B", "C", "D", "E", "F", "a", "b", "c", "d", "e", "f"}

\* the character a percent escape stands for; the escapes the keys of the
\* model use are spelled out, every other one stands for some other
\* character
Unescape(h1, h2) ==
  CASE <<h1, h2>> = <<"2", "F">> -> "/"
    [] <<h1, h2>> = <<"2", "f">> -> "/"
    [] <<h1, h2>> = <<"2", "0">> -> " "
    [] <<h1, h2>> = <<"2", "B">> -> "+"
    [] <<h1, h2>> = <<"2", "b">> -> "+"
    [] OTHER -> "?"

\* decodeURIComponent(s): every %XX becomes its character; a % that is not
\* followed by two hex digits makes it throw URIError (ok = FALSE)
RECURSIVE DecodeURIComponent(_)
DecodeURIComponent(s) ==
  IF s = <<>> THEN [ok |-> TRUE, value |-> <<>>]
  ELSE IF Head(s) = "%"
  THEN IF Len(s) >= 3 /\ s[2] \in HexChars /\ s[3] \in HexChars
       THEN LET rest == DecodeURIComponent(SubSeq(s, 4, Len(s)))
            IN  [ok |-> rest.ok,
                 value |-> <<Unescape(s[2], s[3])>> \o rest.value]
       ELSE [ok |-> FALSE, value |-> <<>>]
  ELSE LET rest == DecodeURIComponent(Tail(s))
       IN  [ok |-> rest.ok, value |-> <<Head(s)>> \o rest.value]

\* `objectKey.split('/').pop()`: what follows the last '/'
RECURSIVE LastSegment(_)
LastSegment(s) ==
  IF s = <<>> THEN <<>>
  ELSE IF s[Len(s)] = "/" THEN <<>>
  ELSE LastSegment(SubSeq(s, 1, Len(s) - 1)) \o <<s[Len(s)]>>

\* `if (!fileName)`: the empty string is falsy
FileNameMissingNever(fileName) == FALSE

FileNameMissing(fileName) == fileName = <<>>

\* `${deposition.links.bucket}/...`: the upload target is the bucket link of
\* the deposition this invocation received
UploadTargetShared(deposition) == 1

UploadTarget(deposition) == deposition

\* Object keys of the events: a file in a folder whose name holds a '+',
\* a folder, the empty key, a key whose escaped '/' ends it, and a key with
\* a malformed escape.
Keys ==
  {<<"d", "/", "a", "+", "b">>,
   <<"d", "/">>,
   <<>>,
   <<"d", "%", "2", "F">>,
   <<"d", "%">>}

\* the keys of an event with several records: those above and a second
\* object, a file at the top of the bucket
RecordKeys == Keys \cup {<<"c">>}

\* the Records of a notification event, by their object keys
Events == UNION {[1..n -> RecordKeys] : n \in 1..MaxRecords}

\* `const record = event.Records[0]`
RecordLast(records) == records[Len(records)]

Record(records) == records[1]

\* encodeURIComponent, on the characters file names are made of here
RECURSIVE EncodeURIComponent(_)
EncodeURIComponent(s) ==
  IF s = <<>> THEN <<>>
  ELSE (CASE Head(s) = " " -> <<"%", "2", "0">>
          [] Head(s) = "+" -> <<"%", "2", "B">>
          [] Head(s) = "/" -> <<"%", "2", "F">>
          [] Head(s) = "%" -> <<"%", "2", "5">>
          [] OTHER -> <<Head(s)>>)
       \o EncodeURIComponent(Tail(s))

(***************************************************************************)
(* The metadata operations (src/src/types.ts 102-192): environment         *)
(* variables, URLs and the prefix test.                                    *)
(***************************************************************************)
\* an environment variable: unset, or set to a string (possibly empty)
EnvUnset == [set |-> FALSE, value |-> <<>>]

EnvSet(v) == [set |-> TRUE, value |-> v]

\* the truthiness of process.env.X: undefined and '' are falsy
Truthy(v) == v.set /\ v.value # <<>>

\* String.prototype.startsWith
StartsWith(s, prefix) ==
  /\ Len(prefix) =< Len(s)
  /\ SubSeq(s, 1, Len(prefix)) = prefix

\* the archive base URL, written without a trailing slash
ArchiveUrl == <<"z">>

\* the values of process.env.ZENODO_URL
BaseUrls == {EnvUnset, EnvSet(<<>>), EnvSet(ArchiveUrl)}

\* the `url` arguments: a deposition of the archive, the base URL itself, a
\* host whose name only begins like the archive's, a foreign host, a
\* foreign URL that holds the base URL further on, and the empty string
Urls ==
  {<<"z", "/", "1">>,
   <<"z">>,
   <<"z", "x", "/", "1">>,
   <<"e", "/", "1">>,
   <<"e", "/", "z">>,
   <<>>}

MetaOps ==
  {"updateDataDeposition", "deleteZenodoEntity", "fetchDataDeposition",
   "createDataDepositionVersion"}

\* `method:` of the operation's fetch (GET when none is given)
Method(op) ==
  CASE op = "updateDataDeposition" -> "PUT"
    [] op = "deleteZenodoEntity" -> "DELETE"
    [] op = "fetchDataDeposition" -> "GET"
    [] op = "createDataDepositionVersion" -> "POST"

\* the statuses the archive answers a metadata request with
MetaStatuses == {200, 201, 204, 404, 500}

\* the status test of each operation: on any other status it throws
Accepted(op, status) ==
  CASE op = "updateDataDeposition" -> status = 200
    [] op = "deleteZenodoEntity" -> status = 204 \/ status = 404
    [] op = "fetchDataDeposition" -> status = 200
    [] op = "createDataDepositionVersion" -> status = 201

\* `if (process.env.ZENODO_URL && !url.startsWith(process.env.ZENODO_URL))`
InvalidDataUrlOnlyEmpty(base, url) == Truthy(base) /\ url = <<>>

InvalidDataUrl(base, url) == Truthy(base) /\ ~StartsWith(url, base.value)

\* no metadata operation was called yet
IdleMeta ==
  [pc |-> "Idle", op |-> "none", url |-> <<>>, calls |-> 0,
   error |-> "none", status |-> Undefined]

(***************************************************************************)
(* State.                                                                  *)
(***************************************************************************)
VARIABLES
  variant,     \* which handler is deployed: "streaming" or "chunked"
  env,         \* the environment of the run: what S3 and the network may do
  event,       \* the S3 event: the object keys of its Records
  depositions, \* the remote service: how many depositions it has created
  other,       \* the state of a second invocation suspended at an await
  pc,          \* the await the handler is suspended at, or its terminal state
  objectKey,   \* handler: `objectKey`
  fileName,    \* handler: `fileName`
  source,      \* { Body, ContentLength } of the GetObject output
  fileSize,    \* ContentLength of the source object, once read
  deposition,  \* handler: id of the `deposition` createDataDeposition returned
  stream,      \* bytes the Body stream handed to the PUT can still deliver
  start,       \* uploadLargeFileToZenodo: `start`
  end,         \* uploadLargeFileToZenodo: `end` of the range being uploaded
  waiting,     \* fetchWithRetry is in its setTimeout(RETRY_DELAY) wait
  calls,       \* fetchWithRetry calls so far; the last one is the active one
  log,         \* every request sent (S3 and HTTP), in order, with its outcome
  probe,       \* the answer to the HEAD probe, once received
  finalSize,   \* uploadFileToZenodo: `finalSize`
  error,       \* the error the handler threw or caught
  statusCode,  \* statusCode of the handler's return value
  uncaught,    \* the handler's promise rejected: no value was returned
  zenodoUrl,   \* process.env.ZENODO_URL
  meta,        \* the metadata operation that was called, and how it ended
  sent         \* every request the metadata operations sent, in order

\* what no step of one invocation changes
world == <<variant, env, event, other, zenodoUrl, meta, sent>>

vars ==
  <<variant, env, event, depositions, other, pc, objectKey, fileName, source,
    fileSize, deposition, stream, start, end, waiting, calls, log, probe,
    finalSize, error, statusCode, uncaught, zenodoUrl, meta, sent>>

NotANumber == [nan |-> TRUE, val |-> 0]

NoError ==
  [kind |-> "none", status |-> Undefined, expected |-> Undefined,
   actual |-> NotANumber]

\* `new Error(...)`: what the message is built from.  status stands for
\* the statusText of the response the error reports, expected and actual
\* for the two sizes of the mismatch message.
Error(kind, status, expected, actual) ==
  [kind |-> kind, status |-> status, expected |-> expected, actual |-> actual]

\* a request as it leaves the process; key is the Key of a GetObject and
\* name the file name at the end of the URL of a PUT or HEAD (both empty
\* on the requests that have none); start/end/total are the Range or
\* Content-Range numbers, len the Content-Length header.  target is the
\* deposition whose bucket the URL addresses and body the number of bytes
\* the body delivers (for a GetObject: the bytes of the returned stream);
\* created is the deposition the service created when it served a POST.
Request(op, s, e, total, len) ==
  [op |-> op, start |-> s, end |-> e, total |-> total, len |-> len,
   outcome |-> "pending", status |-> Undefined, target |-> Undefined,
   body |-> Undefined, created |-> Undefined, key |-> <<>>, name |-> <<>>]

\* GetObjectCommand without Range
GetObject == Request("GetObject", Undefined, Undefined, Undefined, Undefined)

\* GetObjectCommand with `Range: bytes=${start}-${end}`
GetObjectRange(s, e) == Request("GetObject", s, e, Undefined, Undefined)

\* createDataDeposition: POST {ZENODO_URL}/api/deposit/depositions
CreateRequest == Request("POST", Undefined, Undefined, Undefined, Undefined)

\* uploadFileToZenodo: PUT of the whole stream, Content-Length fileSize
PutRequest(size) == Request("PUT", Undefined, Undefined, Undefined, size)

\* uploadLargeFileToZenodo: PUT with Content-Length chunkSize and
\* Content-Range `bytes ${start}-${end}/${fileSize}`
ChunkPutRequest(s, e, size) == Request("PUT", s, e, size, ChunkLength(s, e))

\* the Content-Range header of a ranged PUT:
\* `bytes ${start}-${end}/${fileSize}`
ContentRange(r) ==
  <<"b", "y", "t", "e", "s", " ">> \o NumberToString(r.start) \o <<"-">>
    \o NumberToString(r.end) \o <<"/">> \o NumberToString(r.total)

\* uploadFileToZenodo: HEAD of the uploaded file
HeadRequest == Request("HEAD", Undefined, Undefined, Undefined, Undefined)

\* the request r sent to the bucket of deposition `target` with a body
\* stream that delivers `bytes` bytes
SentTo(r, target, bytes) == [r EXCEPT !.target = target, !.body = bytes]

\* the GetObjectCommand r for `Key: objectKey`
ReadOf(r, key) == [r EXCEPT !.key = key]

\* the request r sent to `.../${encodeURIComponent(fileName)}`
Named(r, name) == [r EXCEPT !.name = EncodeURIComponent(name)]

\* a fresh fetchWithRetry(url, options) call: retries = MAX_RETRIES
NewCall(op) ==
  [op |-> op, retries |-> MAX_RETRIES, attempts |-> 1, failures |-> 0,
   delays |-> 0, outcome |-> "running", status |-> Undefined]

\* the remote's answer to the probe: the size it means to report (Undefined
\* when it reports none that is well formed) and the Content-Length header
\* it sends
NoProbe ==
  [answered |-> FALSE, status |-> Undefined, reported |-> Undefined,
   header |-> NoHeader]

ProbeAnswers(size) ==
  {[reported |-> a, header |-> Header(NumberToString(a))] :
     a \in {size, size + 1, 0} \cup (IF size > 0 THEN {size - 1} ELSE {})}
    \cup {[reported |-> Undefined, header |-> h] :
            h \in {NoHeader, Header(<<>>), Header(<<"x">>),
                   Header(NumberToString(size) \o <<"x">>),
                   Header(<<" ">> \o NumberToString(size)),
                   Header(<<"-">> \o NumberToString(size))}}

NoSource == [readable |-> FALSE, contentLength |-> Undefined]

\* how a fetch() promise settles: it rejects on a transport failure and
\* resolves with a response for every HTTP status
TransportFailure == [kind |-> "error", status |-> Undefined]

Response(status) == [kind |-> "response", status |-> status]

Settlements == {TransportFailure} \cup {Response(s) : s \in env.statuses}

\* `try { return await fetch(url, options) } catch (error) { ... }`:
\* the catch block is entered only when fetch rejects
FetchRejectsOnBadStatus(settlement) ==
  settlement.kind = "error" \/ ~ResponseOk(settlement.status)

FetchRejects(settlement) == settlement.kind = "error"

Pending(i) == i \in DOMAIN log /\ log[i].outcome = "pending"

Resolved(i, outcome, status) ==
  [log EXCEPT ![i].outcome = outcome, ![i].status = status]

Active == Len(calls)

(***************************************************************************)
(* Environments.  In a clean environment a transport failure happens       *)
(* before the request leaves (nothing reached the service, the body stream *)
(* is untouched) and S3 delivers every byte of a range.  In a faulty one a *)
(* failed request may have been served although its response was lost,    *)
(* may have read some or all of its body stream, and a ranged read may     *)
(* come back one byte short.  An environment also fixes the sizes the      *)
(* object may have, the statuses the service answers with and whether the  *)
(* probe may be answered with a malformed Content-Length.                  *)
(***************************************************************************)
CleanEnv ==
  [faults |-> FALSE, sizes |-> SizeSet, statuses |-> HttpStatuses,
   malformed |-> TRUE]

FaultyEnv ==
  [faults |-> TRUE, sizes |-> {0, 1, CHUNK_SIZE + 1}, statuses |-> {200, 500},
   malformed |-> FALSE]

RecordsEnv ==
  [faults |-> TRUE, sizes |-> {1}, statuses |-> {200, 500},
   malformed |-> FALSE]

PairEnv ==
  [faults |-> FALSE, sizes |-> {CHUNK_SIZE + 1}, statuses |-> {200, 500},
   malformed |-> FALSE]

\* what a rejected fetch of a request with method op may leave behind:
\* whether the service created a deposition, and the bytes left in the body
\* stream
AfterFailure(op) ==
  IF ~env.faults THEN {[created |-> FALSE, rest |-> stream]}
  ELSE IF op = "POST"
  THEN {[created |-> c, rest |-> stream] : c \in BOOLEAN}
  ELSE {[created |-> FALSE, rest |-> r] : r \in {stream, stream \div 2, 0}}

\* the answers the service may give to the probe of an upload of size bytes
Answers(size) ==
  IF env.malformed THEN ProbeAnswers(size)
  ELSE {a \in ProbeAnswers(size) : a.reported # Undefined}

\* the number of bytes the stream of a ranged read of len bytes delivers
Delivered(len) == IF env.faults THEN {len, len - 1} ELSE {len}

\* the local state of an invocation that has not started
IdleLocal ==
  [pc |-> "Idle", objectKey |-> <<>>, fileName |-> <<>>, source |-> NoSource,
   fileSize |-> Undefined, deposition |-> Undefined, stream |-> Undefined,
   start |-> Undefined, end |-> Undefined, waiting |-> FALSE, calls |-> <<>>,
   log |-> <<>>, probe |-> NoProbe, finalSize |-> NotANumber,
   error |-> NoError, statusCode |-> Undefined, uncaught |-> FALSE]

\* the local state of the running invocation
Local ==
  [pc |-> pc, objectKey |-> objectKey, fileName |-> fileName,
   source |-> source, fileSize |-> fileSize, deposition |-> deposition,
   stream |-> stream, start |-> start, end |-> end, waiting |-> waiting,
   calls |-> calls, log |-> log, probe |-> probe, finalSize |-> finalSize,
   error |-> error, statusCode |-> statusCode, uncaught |-> uncaught]

\* the running invocation has local state l
Running(l) ==
  /\ pc = l.pc
  /\ objectKey = l.objectKey
  /\ fileName = l.fileName
  /\ source = l.source
  /\ fileSize = l.fileSize
  /\ deposition = l.deposition
  /\ stream = l.stream
  /\ start = l.start
  /\ end = l.end
  /\ waiting = l.waiting
  /\ calls = l.calls
  /\ log = l.log
  /\ probe = l.probe
  /\ finalSize = l.finalSize
  /\ error = l.error
  /\ statusCode = l.statusCode
  /\ uncaught = l.uncaught

\* one invocation of the deployed handler in the environment e, for one of
\* the given events
InitWith(e, events) ==
  /\ variant \in Variants
  /\ env = e
  /\ event \in events
  /\ depositions = 0
  /\ Running(IdleLocal)
  /\ zenodoUrl = EnvSet(ArchiveUrl)
  /\ meta = IdleMeta
  /\ sent = <<>>

\* ... for an event of one record
InitIn(e) == InitWith(e, {<<k>> : k \in Keys})

Init ==
  /\ InitIn(CleanEnv)
  /\ other = <<>>

\* catch (error) { ... return { statusCode: 500, ... } }
Fail(err) ==
  /\ pc' = "Failed"
  /\ error' = err
  /\ statusCode' = 500
  /\ UNCHANGED uncaught

\* a throw outside the try block: the promise of the handler rejects
Throw(err) ==
  /\ pc' = "Failed"
  /\ error' = err
  /\ uncaught' = TRUE
  /\ UNCHANGED statusCode

\* return { statusCode: 200, ... }
Succeed ==
  /\ pc' = "Succeeded"
  /\ statusCode' = 200
  /\ UNCHANGED <<error, uncaught>>

(***************************************************************************)
(* handler: the event arrives.  The key of the first record is decoded and *)
(* the file name taken from it; both throws of this part are outside the   *)
(* try block.  Then `await s3Client.send(new GetObjectCommand)`.           *)
(***************************************************************************)
HandlerStart ==
  /\ pc = "Idle"
  /\ LET decoded == DecodeURIComponent(PlusToSpace(Record(event)))
         name == LastSegment(decoded.value)
     IN  IF ~decoded.ok
         THEN /\ Throw(Error("URIError", Undefined, Undefined, NotANumber))
              /\ UNCHANGED <<objectKey, fileName, log>>
         ELSE /\ objectKey' = decoded.value
              /\ fileName' = name
              /\ IF FileNameMissing(name)
                 THEN /\ Throw(Error("FileNameRequired", Undefined, Undefined,
                                     NotANumber))
                      /\ UNCHANGED log
                 ELSE /\ log' = Append(log, ReadOf(GetObject, decoded.value))
                      /\ pc' = "Reading"
                      /\ UNCHANGED <<error, statusCode, uncaught>>
  /\ UNCHANGED <<world, depositions, source, fileSize, deposition, stream,
                 start, end, waiting, calls, probe, finalSize>>

\* s3Client.send rejects: the catch block returns 500
ReadThrows ==
  /\ pc = "Reading"
  /\ \E i \in DOMAIN log :
       /\ Pending(i)
       /\ log' = Resolved(i, "error", Undefined)
  /\ Fail(Error("S3Error", Undefined, Undefined, NotANumber))
  /\ UNCHANGED <<world, depositions, objectKey, fileName, source, fileSize,
                 deposition, stream, start, end, waiting, calls, probe,
                 finalSize>>

\* s3Client.send resolves with { Body, ContentLength }.  Without a stream
\* or a truthy ContentLength the handler throws; otherwise it calls
\* createDataDeposition, which issues the POST through fetchWithRetry.
ReadReturns ==
  /\ pc = "Reading"
  /\ \E i \in DOMAIN log, bodyReadable \in BOOLEAN,
        contentLength \in env.sizes \cup {Undefined} :
       /\ Pending(i)
       /\ source' = [readable |-> bodyReadable,
                     contentLength |-> contentLength]
       /\ IF NoFileStream(bodyReadable, contentLength)
          THEN /\ log' = Resolved(i, "response", Undefined)
               /\ Fail(Error("NoFileStream", Undefined, Undefined, NotANumber))
               /\ UNCHANGED <<fileSize, stream, calls>>
          ELSE /\ fileSize' = contentLength
               /\ stream' = contentLength
               /\ log' = Append(Resolved(i, "response", Undefined),
                                CreateRequest)
               /\ calls' = Append(calls, NewCall("POST"))
               /\ pc' = "Provisioning"
               /\ UNCHANGED <<error, statusCode, uncaught>>
  /\ UNCHANGED <<world, depositions, objectKey, fileName, deposition, start,
                 end, waiting, probe, finalSize>>

(***************************************************************************)
(* fetchWithRetry                                                          *)
(***************************************************************************)
\* `await fetch(url, options)` rejects.  With retries left the call waits
\* RETRY_DELAY; without, it rethrows and the handler's catch returns 500.
FetchThrows ==
  /\ pc \in {"Provisioning", "Uploading"}
  /\ ~waiting
  /\ \E i \in DOMAIN log, settlement \in Settlements :
       /\ Pending(i)
       /\ FetchRejects(settlement)
       /\ \E after \in AfterFailure(log[i].op) :
            /\ stream' = after.rest
            /\ IF after.created
               THEN /\ depositions' = depositions + 1
                    /\ log' = [Resolved(i, settlement.kind, settlement.status)
                                 EXCEPT ![i].created = depositions + 1]
               ELSE /\ log' = Resolved(i, settlement.kind, settlement.status)
                    /\ UNCHANGED depositions
  /\ IF RetryAllowed(calls[Active].retries)
     THEN /\ waiting' = TRUE
          /\ calls' = [calls EXCEPT ![Active].failures = @ + 1]
          /\ UNCHANGED <<pc, error, statusCode, uncaught>>
     ELSE /\ calls' = [calls EXCEPT ![Active].failures = @ + 1,
                                    ![Active].outcome = "error"]
          /\ Fail(Error("TransportError", Undefined, Undefined, NotANumber))
          /\ UNCHANGED waiting
  /\ UNCHANGED <<world, objectKey, fileName, source, fileSize, deposition,
                 start, end, probe, finalSize>>

\* the setTimeout(resolve, RETRY_DELAY) fires:
\* `return fetchWithRetry(url, options, retries - 1)` sends the same request
\* with the same options, so a stream body delivers what is left of it
RetryDelayElapsed ==
  /\ waiting
  /\ \E i \in DOMAIN log :
       /\ i = Len(log)
       /\ log' = Append(log, [log[i] EXCEPT
                                !.outcome = "pending",
                                !.status = Undefined,
                                !.created = Undefined,
                                !.body = IF log[i].op = "PUT" THEN stream
                                         ELSE Undefined])
  /\ calls' = [calls EXCEPT ![Active].delays = @ + 1,
                            ![Active].retries = @ - 1,
                            ![Active].attempts = @ + 1]
  /\ waiting' = FALSE
  /\ UNCHANGED <<world, depositions, pc, objectKey, fileName, source,
                 fileSize, deposition, stream, start, end, probe, finalSize,
                 error, statusCode, uncaught>>

\* fetchWithRetry returns the response, whatever its status
Returned(status) ==
  [calls EXCEPT ![Active].outcome = "response", ![Active].status = status]

(***************************************************************************)
(* uploadLargeFileToZenodo: the head of `while (start < fileSize)`, run    *)
(* with `start` = s after the requests in logNow.  Either the next range   *)
(* is read from S3, or the loop ends, the function returns and the chunked *)
(* handler returns 200.                                                    *)
(***************************************************************************)
ChunkLoop(s, logNow) ==
  /\ start' = s
  /\ IF MoreChunks(s, fileSize)
     THEN /\ end' = ChunkEnd(s, fileSize)
          /\ log' = Append(logNow,
                           ReadOf(GetObjectRange(s, ChunkEnd(s, fileSize)),
                                  objectKey))
          /\ pc' = "ChunkReading"
          /\ UNCHANGED <<error, statusCode, uncaught>>
     ELSE /\ log' = logNow
          /\ Succeed
          /\ UNCHANGED end

\* createDataDeposition: the POST is answered.  `if (!res.ok) throw`;
\* otherwise the service has created a deposition and returned it, and the
\* handler starts the upload: uploadFileToZenodo sends the PUT of the whole
\* stream, uploadLargeFileToZenodo enters its loop.
CreateResponse ==
  /\ pc = "Provisioning"
  /\ ~waiting
  /\ \E i \in DOMAIN log, status \in env.statuses :
       /\ Pending(i)
       /\ ~FetchRejects(Response(status))
       /\ IF ~ResponseOk(status)
          THEN /\ calls' = Returned(status)
               /\ log' = Resolved(i, "response", status)
               /\ Fail(Error("ProvisionError", status, Undefined, NotANumber))
               /\ UNCHANGED <<start, end, deposition, depositions>>
          ELSE LET id == depositions + 1
                   answered == [Resolved(i, "response", status)
                                  EXCEPT ![i].created = id]
               IN  /\ depositions' = id
                   /\ deposition' = id
                   /\ IF variant = "streaming"
                      THEN /\ calls' = Append(Returned(status), NewCall("PUT"))
                           /\ log' = Append(answered,
                                            Named(SentTo(PutRequest(fileSize),
                                                         UploadTarget(id),
                                                         stream),
                                                  fileName))
                           /\ pc' = "Uploading"
                           /\ UNCHANGED <<start, end, error, statusCode,
                                          uncaught>>
                      ELSE /\ calls' = Returned(status)
                           /\ ChunkLoop(0, answered)
  /\ UNCHANGED <<world, objectKey, fileName, source, fileSize, stream,
                 waiting, probe, finalSize>>

\* uploadLargeFileToZenodo: the ranged s3Client.send rejects
ChunkReadThrows ==
  /\ pc = "ChunkReading"
  /\ \E i \in DOMAIN log :
       /\ Pending(i)
       /\ log' = Resolved(i, "error", Undefined)
  /\ Fail(Error("S3Error", Undefined, Undefined, NotANumber))
  /\ UNCHANGED <<world, depositions, objectKey, fileName, source, fileSize,
                 deposition, stream, start, end, waiting, calls, probe,
                 finalSize>>

\* uploadLargeFileToZenodo: the ranged read resolves.  Without a stream it
\* throws; otherwise the stream, however many bytes it holds, is PUT
\* through fetchWithRetry with the Content-Length of the full range.
ChunkReadReturns ==
  /\ pc = "ChunkReading"
  /\ \E i \in DOMAIN log, bodyReadable \in BOOLEAN,
        bytes \in Delivered(ChunkLength(start, end)) :
       /\ Pending(i)
       /\ IF ~bodyReadable
          THEN /\ bytes = ChunkLength(start, end)
               /\ log' = Resolved(i, "response", Undefined)
               /\ Fail(Error("NoChunkStream", Undefined, Undefined,
                             NotANumber))
               /\ UNCHANGED <<calls, stream>>
          ELSE /\ stream' = bytes
               /\ log' = Append([Resolved(i, "response", Undefined)
                                   EXCEPT ![i].body = bytes],
                                Named(SentTo(ChunkPutRequest(start, end, fileSize),
                                             UploadTarget(deposition), bytes),
                                      fileName))
               /\ calls' = Append(calls, NewCall("PUT"))
               /\ pc' = "Uploading"
               /\ UNCHANGED <<error, statusCode, uncaught>>
  /\ UNCHANGED <<world, depositions, objectKey, fileName, source, fileSize,
                 deposition, start, end, waiting, probe, finalSize>>

\* uploadLargeFileToZenodo: the PUT of a range is answered.
\* `if (!response.ok) throw`; otherwise `start = end + 1` and the loop
\* condition is tested again.
ChunkPutResponse ==
  /\ variant = "chunked"
  /\ pc = "Uploading"
  /\ ~waiting
  /\ \E i \in DOMAIN log, status \in env.statuses :
       /\ Pending(i)
       /\ ~FetchRejects(Response(status))
       /\ calls' = Returned(status)
       /\ IF ~ResponseOk(status)
          THEN /\ log' = Resolved(i, "response", status)
               /\ Fail(Error("UploadError", status, Undefined, NotANumber))
               /\ UNCHANGED <<start, end>>
          ELSE ChunkLoop(NextStart(end), Resolved(i, "response", status))
  /\ UNCHANGED <<world, depositions, objectKey, fileName, source, fileSize,
                 deposition, stream, waiting, probe, finalSize>>

\* uploadFileToZenodo: the PUT is answered.  `if (!response.ok) throw`;
\* otherwise the HEAD probe is sent with plain fetch (no fetchWithRetry).
PutResponse ==
  /\ variant = "streaming"
  /\ pc = "Uploading"
  /\ ~waiting
  /\ \E i \in DOMAIN log, status \in env.statuses :
       /\ Pending(i)
       /\ ~FetchRejects(Response(status))
       /\ calls' = Returned(status)
       /\ IF ~ResponseOk(status)
          THEN /\ log' = Resolved(i, "response", status)
               /\ Fail(Error("UploadError", status, Undefined, NotANumber))
          ELSE /\ log' = Append(Resolved(i, "response", status),
                                Named(SentTo(HeadRequest,
                                             UploadTarget(deposition),
                                             Undefined),
                                      fileName))
               /\ pc' = "Verifying"
               /\ UNCHANGED <<error, statusCode, uncaught>>
  /\ UNCHANGED <<world, depositions, objectKey, fileName, source, fileSize,
                 deposition, stream, start, end, waiting, probe, finalSize>>

\* uploadFileToZenodo: the HEAD fetch rejects; nothing retries it
ProbeThrows ==
  /\ pc = "Verifying"
  /\ \E i \in DOMAIN log :
       /\ Pending(i)
       /\ log' = Resolved(i, "error", Undefined)
  /\ Fail(Error("TransportError", Undefined, Undefined, NotANumber))
  /\ UNCHANGED <<world, depositions, objectKey, fileName, source, fileSize,
                 deposition, stream, start, end, waiting, calls, probe,
                 finalSize>>

\* uploadFileToZenodo: the HEAD is answered.  `if (!finalResponse.ok)
\* throw`; then finalSize is parsed from Content-Length and compared with
\* fileSize; on a match the function returns and the handler returns 200.
ProbeResponse ==
  /\ pc = "Verifying"
  /\ \E i \in DOMAIN log, status \in env.statuses,
        answer \in Answers(fileSize) :
       /\ Pending(i)
       /\ log' = Resolved(i, "response", status)
       /\ probe' = [answered |-> TRUE, status |-> status,
                    reported |-> answer.reported, header |-> answer.header]
       /\ IF ~ResponseOk(status)
          THEN /\ Fail(Error("ProbeError", status, Undefined, NotANumber))
               /\ UNCHANGED finalSize
          ELSE /\ finalSize' = FinalSize(answer.header)
               /\ IF SizeMismatch(FinalSize(answer.header), fileSize)
                  THEN Fail(Error("SizeMismatch", Undefined, fileSize,
                                  FinalSize(answer.header)))
                  ELSE Succeed
  /\ UNCHANGED <<world, depositions, objectKey, fileName, source, fileSize,
                 deposition, stream, start, end, waiting, calls>>

Next ==
  \/ HandlerStart
  \/ ReadThrows
  \/ ReadReturns
  \/ FetchThrows
  \/ RetryDelayElapsed
  \/ CreateResponse
  \/ ChunkReadThrows
  \/ ChunkReadReturns
  \/ ChunkPutResponse
  \/ PutResponse
  \/ ProbeThrows
  \/ ProbeResponse

Spec == Init /\ [][Next]_vars

\* the same handler where the network loses responses and drains streams
\* and S3 shortens ranged reads
InitFaulty ==
  /\ InitIn(FaultyEnv)
  /\ other = <<>>

SpecFaulty == InitFaulty /\ [][Next]_vars

\* two invocations of the handler for the same event: each has its own
\* locals, and between two steps the event loop (or a second container)
\* may run the other one.  The second may also start after the first ended.
InitPair ==
  /\ InitIn(PairEnv)
  /\ other = <<IdleLocal>>

\* the suspended invocation goes on and the running one is suspended
Switch ==
  /\ other # <<>>
  /\ other' = <<Local>>
  /\ pc' = other[1].pc
  /\ objectKey' = other[1].objectKey
  /\ fileName' = other[1].fileName
  /\ source' = other[1].source
  /\ fileSize' = other[1].fileSize
  /\ deposition' = other[1].deposition
  /\ stream' = other[1].stream
  /\ start' = other[1].start
  /\ end' = other[1].end
  /\ waiting' = other[1].waiting
  /\ calls' = other[1].calls
  /\ log' = other[1].log
  /\ probe' = other[1].probe
  /\ finalSize' = other[1].finalSize
  /\ error' = other[1].error
  /\ statusCode' = other[1].statusCode
  /\ uncaught' = other[1].uncaught
  /\ UNCHANGED <<variant, env, event, depositions, zenodoUrl, meta, sent>>

NextPair ==
  \/ Next
  \/ Switch

SpecPair == InitPair /\ [][NextPair]_vars

\* one invocation for an event of up to MaxRecords records, where the
\* network may lose responses
InitRecords ==
  /\ InitWith(RecordsEnv, Events)
  /\ other = <<>>

SpecRecords == InitRecords /\ [][Next]_vars

\* every request that is awaited is eventually answered or fails, and a
\* timer that was set eventually fires: some step of the handler is taken
\* whenever one is possible
SpecLive == Init /\ [][Next]_vars /\ WF_vars(Next)

(***************************************************************************)
(* The metadata operations.  Each is one async function: the prefix test,  *)
(* one fetch with the bearer token, the status test.                       *)
(***************************************************************************)
handlerVars ==
  <<variant, env, event, depositions, other, pc, objectKey, fileName, source,
    fileSize, deposition, stream, start, end, waiting, calls, log, probe,
    finalSize, error, statusCode, uncaught>>

\* the request of operation op to url, with
\* `Authorization: Bearer ${process.env.ZENODO_ACCESS_TOKEN}`
MetaRequest(op, url, call) ==
  [op |-> op, method |-> Method(op), url |-> url, authorization |-> TRUE,
   call |-> call, outcome |-> "pending", status |-> Undefined]

\* one of the four operations is called with a url: it throws
\* `Invalid data URL` or sends its request
MetaCall ==
  /\ meta.pc \in {"Idle", "Returned", "Thrown"}
  /\ meta.calls < MaxCalls
  /\ \E op \in MetaOps, url \in Urls :
       IF InvalidDataUrl(zenodoUrl, url)
       THEN /\ meta' = [pc |-> "Thrown", op |-> op, url |-> url,
                        calls |-> meta.calls + 1,
                        error |-> "InvalidDataURL", status |-> Undefined]
            /\ UNCHANGED sent
       ELSE /\ meta' = [pc |-> "Fetching", op |-> op, url |-> url,
                        calls |-> meta.calls + 1, error |-> "none",
                        status |-> Undefined]
            /\ sent' = Append(sent, MetaRequest(op, url, meta.calls + 1))
  /\ UNCHANGED <<handlerVars, zenodoUrl>>

\* `await fetch(url, ...)` rejects: the operation rejects with that error
MetaFetchThrows ==
  /\ meta.pc = "Fetching"
  /\ sent' = [sent EXCEPT ![Len(sent)].outcome = "error"]
  /\ meta' = [meta EXCEPT !.pc = "Thrown", !.error = "TransportError"]
  /\ UNCHANGED <<handlerVars, zenodoUrl>>

\* the request is answered: the operation returns on the status it expects
\* and throws `Status ${res.status}: Unable to ...` on any other
MetaResponse ==
  /\ meta.pc = "Fetching"
  /\ \E status \in MetaStatuses :
       /\ sent' = [sent EXCEPT ![Len(sent)].outcome = "response",
                               ![Len(sent)].status = status]
       /\ meta' = IF Accepted(meta.op, status)
                  THEN [meta EXCEPT !.pc = "Returned", !.status = status]
                  ELSE [meta EXCEPT !.pc = "Thrown", !.status = status,
                                    !.error = "StatusError"]
  /\ UNCHANGED <<handlerVars, zenodoUrl>>

NextMeta ==
  \/ MetaCall
  \/ MetaFetchThrows
  \/ MetaResponse

\* the metadata operations called in a process with any configuration of
\* ZENODO_URL; no handler runs
InitMeta ==
  /\ variant = "streaming"
  /\ env = CleanEnv
  /\ event = <<<<"d", "/", "a", "+", "b">>>>
  /\ depositions = 0
  /\ other = <<>>
  /\ Running(IdleLocal)
  /\ zenodoUrl \in BaseUrls
  /\ meta = IdleMeta
  /\ sent = <<>>

SpecMeta == InitMeta /\ [][NextMeta]_vars

TypeOK ==
  /\ variant \in Variants
  /\ pc \in {"Idle", "Reading", "Provisioning", "ChunkReading", "Uploading",
            "Verifying", "Succeeded", "Failed"}
  /\ statusCode \in {Undefined, 200, 500}
  /\ waiting \in BOOLEAN
  /\ uncaught \in BOOLEAN

(***************************************************************************)
(* Vocabulary of the properties.                                           *)
(***************************************************************************)
IsSuccess(status) == status \in 200..299

Terminal == pc \in {"Succeeded", "Failed"}

IsPut(i) == log[i].op = "PUT"

Acked(i) == log[i].outcome = "response" /\ IsSuccess(log[i].status)

Rejected(i) == log[i].outcome = "response" /\ ~IsSuccess(log[i].status)

\* the PUTs the remote acknowledged with a success status, in order
AckedPuts ==
  SelectSeq(log, LAMBDA r : r.op = "PUT" /\ r.outcome = "response"
                            /\ IsSuccess(r.status))

RECURSIVE SumOfLengths(_)
SumOfLengths(puts) ==
  IF puts = <<>> THEN 0 ELSE Head(puts).len + SumOfLengths(Tail(puts))

RECURSIVE SumOfAttempts(_)
SumOfAttempts(cs) ==
  IF cs = <<>> THEN 0 ELSE Head(cs).attempts + SumOfAttempts(Tail(cs))

SameRequest(r, q) ==
  /\ r.op = q.op
  /\ r.start = q.start
  /\ r.end = q.end
  /\ r.len = q.len

(***************************************************************************)
(* C1: in the chunked upload the ranges acknowledged so far are contiguous *)
(* and non-overlapping and start at offset 0, each Content-Length is the   *)
(* length of its range, and once every PUT has succeeded the lengths sum   *)
(* to exactly the object size.                                             *)
(***************************************************************************)
C1_RangesCoverObject ==
  variant = "chunked" =>
    LET puts == AckedPuts
    IN  /\ puts # <<>> => puts[1].start = 0
        /\ \A k \in 1..Len(puts) :
             /\ puts[k].start =< puts[k].end
             /\ puts[k].len = puts[k].end - puts[k].start + 1
             /\ puts[k].len =< CHUNK_SIZE
             /\ puts[k].total = fileSize
        /\ \A k \in 1..(Len(puts) - 1) : puts[k + 1].start = puts[k].end + 1
        /\ puts # <<>> => SumOfLengths(puts) =< fileSize
        /\ pc = "Succeeded" => SumOfLengths(puts) = fileSize

\* a finished chunked upload of three ranges whose last range is short
C1_Witness ==
  /\ variant = "chunked"
  /\ pc = "Succeeded"
  /\ Len(AckedPuts) = 3
  /\ AckedPuts[3].len < CHUNK_SIZE

(***************************************************************************)
(* C2: the handler returns 200 only if, after the last PUT, a probe was    *)
(* answered with a success status and with a size equal to the size of the *)
(* source object; on the streaming path and on the chunked path alike.     *)
(***************************************************************************)
C2_SucceededOnlyAfterVerification ==
  pc = "Succeeded" =>
    /\ probe.answered
    /\ IsSuccess(probe.status)
    /\ ~finalSize.nan
    /\ finalSize.val = fileSize
    /\ \E h \in DOMAIN log :
         /\ log[h].op = "HEAD"
         /\ \A i \in DOMAIN log : IsPut(i) => i < h

(***************************************************************************)
(* C3: a fetchWithRetry call that returned a response met k =< MAX_RETRIES *)
(* transport failures and waited the delay exactly k times; a call that    *)
(* failed met MAX_RETRIES + 1 failures in MAX_RETRIES + 1 attempts,        *)
(* surfaced the transport error, and nothing was sent after it.  Every     *)
(* attempt is one request on the wire.                                     *)
(***************************************************************************)
C3_RetryBound ==
  /\ \A c \in DOMAIN calls :
       /\ calls[c].failures =< MAX_RETRIES + 1
       /\ calls[c].outcome = "response" =>
            /\ calls[c].failures =< MAX_RETRIES
            /\ calls[c].delays = calls[c].failures
            /\ calls[c].attempts = calls[c].failures + 1
       /\ calls[c].outcome = "error" =>
            /\ calls[c].failures = MAX_RETRIES + 1
            /\ calls[c].attempts = MAX_RETRIES + 1
            /\ calls[c].delays = MAX_RETRIES
            /\ c = Len(calls)
            /\ pc = "Failed"
            /\ error.kind = "TransportError"
            /\ log[Len(log)].outcome = "error"
       /\ calls[c].outcome = "running" =>
            /\ c = Len(calls)
            /\ calls[c].failures =< MAX_RETRIES
  /\ SumOfAttempts(calls)
       = Cardinality({i \in DOMAIN log : log[i].op \in {"POST", "PUT"}})

\* one call succeeded after exactly MAX_RETRIES failures and a later call
\* gave up
C3_Witness ==
  \E c, d \in DOMAIN calls :
    /\ calls[c].outcome = "response"
    /\ calls[c].failures = MAX_RETRIES
    /\ calls[d].outcome = "error"

(***************************************************************************)
(* C4: after an HTTP response to a POST or PUT, whatever its status, the   *)
(* same request is never sent again; a non-success status ends the call    *)
(* with that status, without a delay, as the last request of the           *)
(* invocation.                                                             *)
(***************************************************************************)
C4_NoRetryAfterResponse ==
  \A i \in DOMAIN log :
    (log[i].op \in {"POST", "PUT"} /\ log[i].outcome = "response") =>
      /\ \A j \in DOMAIN log : j > i => ~SameRequest(log[i], log[j])
      /\ Rejected(i) =>
           /\ i = Len(log)
           /\ ~waiting
           /\ calls[Len(calls)].outcome = "response"
           /\ calls[Len(calls)].status = log[i].status
           /\ calls[Len(calls)].delays = calls[Len(calls)].failures

\* a PUT was answered 500 after an earlier attempt of it failed in transport
C4_Witness ==
  \E i \in DOMAIN log :
    /\ IsPut(i)
    /\ Rejected(i)
    /\ log[i].status = 500
    /\ calls[Len(calls)].failures > 0

(***************************************************************************)
(* C5: with expected size E = fileSize, a probe answered with a success    *)
(* status and a reported size A verifies iff A = E, and a different A      *)
(* fails with an error that carries E and A; a probe answered with a       *)
(* non-success status, or not answered at all, fails too.                  *)
(***************************************************************************)
C5_VerifyIffSizesEqual ==
  /\ probe.answered =>
       /\ ~IsSuccess(probe.status) =>
            /\ pc = "Failed"
            /\ error.kind = "ProbeError"
       /\ (IsSuccess(probe.status) /\ probe.reported # Undefined) =>
            /\ pc = "Succeeded" <=> probe.reported = fileSize
            /\ probe.reported # fileSize =>
                 /\ pc = "Failed"
                 /\ error.kind = "SizeMismatch"
                 /\ error.expected = fileSize
                 /\ error.actual = [nan |-> FALSE, val |-> probe.reported]
  /\ \A h \in DOMAIN log :
       (log[h].op = "HEAD" /\ log[h].outcome = "error") => pc = "Failed"

\* the probe succeeded and reported one byte more than expected
C5_Witness ==
  /\ probe.answered
  /\ IsSuccess(probe.status)
  /\ probe.reported = fileSize + 1
  /\ pc = "Failed"

(***************************************************************************)
(* C6: in the chunked upload a non-success status for the PUT of a range   *)
(* ends the upload at once: that PUT is the last request of the            *)
(* invocation (no later PUT, nothing that deletes what was stored), and    *)
(* the handler returns 500 with the upload error.                          *)
(***************************************************************************)
C6_ChunkRejectionIsFatal ==
  variant = "chunked" =>
    /\ \A i \in DOMAIN log :
         (IsPut(i) /\ Rejected(i)) =>
           /\ i = Len(log)
           /\ pc = "Failed"
           /\ statusCode = 500
           /\ error.kind = "UploadError"
           /\ error.status = log[i].status
    /\ \A i \in DOMAIN log : log[i].op \in {"GetObject", "POST", "PUT"}

\* the first range was stored and the PUT of the second was answered 403
C6_Witness ==
  /\ variant = "chunked"
  /\ Len(AckedPuts) = 1
  /\ \E i \in DOMAIN log :
       /\ IsPut(i)
       /\ Rejected(i)
       /\ log[i].status = 403
       /\ log[i].start = CHUNK_SIZE

(***************************************************************************)
(* C7: the range PUTs of a chunked upload are sequential: at most one is   *)
(* in flight, a PUT that starts past offset 0 is sent only after a PUT of  *)
(* the range ending right before it was acknowledged with a success        *)
(* status, and start offsets never decrease: a later PUT either repeats    *)
(* the range of an earlier one (a retry after a transport failure) or      *)
(* starts beyond the earlier range's end.                                  *)
(***************************************************************************)
C7_SequentialChunks ==
  variant = "chunked" =>
    /\ Cardinality({i \in DOMAIN log : IsPut(i) /\ Pending(i)}) =< 1
    /\ \A j \in DOMAIN log :
         IsPut(j) =>
           /\ \A i \in 1..(j - 1) : IsPut(i) => ~Pending(i)
           /\ log[j].start > 0 =>
                \E i \in 1..(j - 1) :
                  /\ IsPut(i)
                  /\ Acked(i)
                  /\ log[i].end + 1 = log[j].start
           /\ \A i \in 1..(j - 1) :
                IsPut(i) =>
                  \/ /\ log[i].start = log[j].start
                     /\ log[i].end = log[j].end
                     /\ log[i].outcome = "error"
                  \/ /\ log[i].end < log[j].start
                     /\ \E k \in i..(j - 1) :
                          /\ IsPut(k)
                          /\ Acked(k)
                          /\ log[k].start = log[i].start

\* the third range is in flight after the second needed a retry
C7_Witness ==
  /\ variant = "chunked"
  /\ \E i, j, k \in DOMAIN log :
       /\ i < j /\ j < k
       /\ IsPut(i) /\ IsPut(j) /\ IsPut(k)
       /\ log[i].start = CHUNK_SIZE /\ log[i].outcome = "error"
       /\ log[j].start = CHUNK_SIZE /\ Acked(j)
       /\ log[k].start = 2 * CHUNK_SIZE /\ Pending(k)

(***************************************************************************)
(* C8: the steps come in the order read size, provision, upload, verify:   *)
(* a creation request is sent only after the unranged GetObject returned   *)
(* the size, a PUT only after a creation request was answered with a       *)
(* success status, and the probe only after the whole planned upload was   *)
(* acknowledged with a success status and with no PUT outstanding.         *)
(***************************************************************************)
C8_PipelineOrder ==
  \A j \in DOMAIN log :
    /\ log[j].op = "POST" =>
         /\ fileSize \in SizeSet
         /\ fileSize = source.contentLength
         /\ \E i \in 1..(j - 1) :
              /\ log[i].op = "GetObject"
              /\ log[i].start = Undefined
              /\ log[i].outcome = "response"
    /\ log[j].op = "PUT" =>
         \E i \in 1..(j - 1) : log[i].op = "POST" /\ Acked(i)
    /\ log[j].op = "HEAD" =>
         /\ \A i \in DOMAIN log : IsPut(i) => (i < j /\ ~Pending(i))
         /\ SumOfLengths(SelectSeq(SubSeq(log, 1, j - 1),
                                   LAMBDA r : r.op = "PUT"
                                              /\ r.outcome = "response"
                                              /\ IsSuccess(r.status)))
              = fileSize

\* the probe is in flight
C8_Witness ==
  \E j \in DOMAIN log : log[j].op = "HEAD" /\ Pending(j)

(***************************************************************************)
(* C9: a non-success status for the deposition-creation request ends the   *)
(* handler in Failed (500) with the provisioning error built from that     *)
(* response, and no PUT and no probe is ever sent.                         *)
(***************************************************************************)
C9_ProvisionFailureIsFatal ==
  \A i \in DOMAIN log :
    (log[i].op = "POST" /\ Rejected(i)) =>
      /\ pc = "Failed"
      /\ statusCode = 500
      /\ error.kind = "ProvisionError"
      /\ error.status = log[i].status
      /\ i = Len(log)
      /\ \A j \in DOMAIN log : log[j].op \notin {"PUT", "HEAD"}

\* the creation request was answered 500
C9_Witness ==
  \E i \in DOMAIN log :
    log[i].op = "POST" /\ Rejected(i) /\ log[i].status = 500

(***************************************************************************)
(* C10: when the source object has size 0 (and a readable stream), the     *)
(* invocation does not fail while every request it sent was answered with  *)
(* success; once it is over, exactly one PUT was sent and that PUT is      *)
(* zero-length.                                                            *)
(***************************************************************************)
C10_EmptyObjectIsUploaded ==
  (source.readable /\ source.contentLength = 0 /\ Terminal
     /\ \A i \in DOMAIN log :
          /\ log[i].outcome = "response"
          /\ log[i].op # "GetObject" => IsSuccess(log[i].status)) =>
    /\ pc = "Succeeded"
    /\ Cardinality({i \in DOMAIN log : IsPut(i)}) = 1
    /\ \A i \in DOMAIN log : IsPut(i) => log[i].len = 0

(***************************************************************************)
(* C11: every failure of the handler, the empty file name included, is     *)
(* returned as a result with a status code and a message; the handler's    *)
(* promise never rejects.                                                  *)
(***************************************************************************)
C11_FailuresAreReturned ==
  pc = "Failed" =>
    /\ statusCode = 500
    /\ error # NoError
    /\ ~uncaught

(***************************************************************************)
(* C12: when the last segment of the decoded key ('+' read as a space) is  *)
(* empty, the handler has failed with the file-name error as soon as it    *)
(* has run, and no request of any kind (S3 read, creation, PUT, probe) is  *)
(* ever sent.                                                              *)
(***************************************************************************)
C12_EmptyNameFailsBeforeNetwork ==
  LET decoded == DecodeURIComponent(PlusToSpace(event[1]))
  IN  (decoded.ok /\ LastSegment(decoded.value) = <<>> /\ pc # "Idle") =>
        /\ pc = "Failed"
        /\ error.kind = "FileNameRequired"
        /\ fileName = <<>>
        /\ log = <<>>
        /\ calls = <<>>
        /\ depositions = 0

\* the key "d%2F", whose last segment is empty only once it is decoded, has
\* been handled
C12_Witness ==
  /\ event[1] = <<"d", "%", "2", "F">>
  /\ objectKey = <<"d", "/">>
  /\ pc = "Failed"

(***************************************************************************)
(* C13: when the GetObject output carries no ContentLength, the handler    *)
(* ends in Failed (500) with the error of a missing stream or size; the    *)
(* read is not repeated, and no creation request and no PUT is sent.       *)
(***************************************************************************)
C13_UnknownSizeIsFatal ==
  (log # <<>> /\ log[1].outcome = "response"
     /\ source.contentLength = Undefined) =>
    /\ pc = "Failed"
    /\ statusCode = 500
    /\ error.kind = "NoFileStream"
    /\ Len(log) = 1
    /\ log[1].op = "GetObject"
    /\ calls = <<>>
    /\ depositions = 0

\* the read returned a readable stream without a ContentLength
C13_Witness ==
  /\ log # <<>>
  /\ log[1].outcome = "response"
  /\ source.readable
  /\ source.contentLength = Undefined
  /\ pc = "Failed"

(***************************************************************************)
(* C14: an invocation that sends the creation request makes the service    *)
(* create at most one deposition, whatever fails and is retried, a request *)
(* that was served but whose response was lost included; once the upload   *)
(* has started exactly one exists.                                         *)
(***************************************************************************)
C14_OneDepositionPerInvocation ==
  LET created == {i \in DOMAIN log : log[i].created # Undefined}
  IN  /\ Cardinality(created) =< 1
      /\ deposition # Undefined => Cardinality(created) = 1

(***************************************************************************)
(* C15: of two invocations, running concurrently or one after the other    *)
(* has failed, each sends its PUTs and its probe only to the deposition    *)
(* its own creation request was answered with, and the two depositions     *)
(* differ: nothing of one invocation is used by the other.                 *)
(***************************************************************************)
OwnTarget(l) ==
  \A j \in DOMAIN l.log :
    l.log[j].op \in {"PUT", "HEAD"} =>
      /\ l.log[j].target = l.deposition
      /\ \E i \in 1..(j - 1) :
           /\ l.log[i].op = "POST"
           /\ l.log[i].outcome = "response"
           /\ l.log[i].created = l.deposition

Targets(l) ==
  {l.log[j].target : j \in {k \in DOMAIN l.log : l.log[k].op \in {"PUT", "HEAD"}}}

C15_InvocationsAreIndependent ==
  other # <<>> =>
    /\ OwnTarget(Local)
    /\ OwnTarget(other[1])
    /\ Targets(Local) \cap Targets(other[1]) = {}
    /\ deposition # Undefined => deposition # other[1].deposition

\* both invocations have a PUT in flight at the same time
C15_Witness ==
  /\ other # <<>>
  /\ pc = "Uploading"
  /\ other[1].pc = "Uploading"
  /\ Pending(Len(log))
  /\ other[1].log[Len(other[1].log)].outcome = "pending"

(***************************************************************************)
(* C16: for an object of size s with 0 < s =< CHUNK_SIZE the chunked       *)
(* upload consists of one PUT: the range is [0, s - 1], Content-Length is  *)
(* s and Content-Range is "bytes 0-(s-1)/s".  It is sent again only after  *)
(* a transport failure, unchanged, and once the upload has succeeded       *)
(* exactly one PUT was acknowledged.                                       *)
(***************************************************************************)
C16_SmallObjectIsOnePut ==
  (variant = "chunked" /\ 0 < fileSize /\ fileSize =< CHUNK_SIZE) =>
    /\ \A i \in DOMAIN log :
         IsPut(i) =>
           /\ log[i].start = 0
           /\ log[i].end = fileSize - 1
           /\ log[i].len = fileSize
           /\ ContentRange(log[i])
                = <<"b", "y", "t", "e", "s", " ", "0", "-">>
                    \o NumberToString(fileSize - 1) \o <<"/">>
                    \o NumberToString(fileSize)
           /\ \A j \in 1..(i - 1) :
                IsPut(j) => (log[j].outcome = "error" /\ IsPut(i - 1))
    /\ Cardinality({c \in DOMAIN calls : calls[c].op = "PUT"}) =< 1
    /\ pc = "Succeeded" => Len(AckedPuts) = 1

\* an object of exactly CHUNK_SIZE bytes was uploaded, the PUT having
\* failed once on the way
C16_Witness ==
  /\ variant = "chunked"
  /\ fileSize = CHUNK_SIZE
  /\ pc = "Succeeded"
  /\ \E i \in DOMAIN log : IsPut(i) /\ log[i].outcome = "error"

(***************************************************************************)
(* C17: when a ranged read returns fewer bytes than the range asked for,   *)
(* the chunked upload fails there with a read error: the short stream is   *)
(* not sent in a PUT.                                                      *)
(***************************************************************************)
C17_ShortReadIsNotUploaded ==
  \A i \in DOMAIN log :
    (/\ log[i].op = "GetObject"
     /\ log[i].start # Undefined
     /\ log[i].body # Undefined
     /\ log[i].body < ChunkLength(log[i].start, log[i].end)) =>
      /\ pc = "Failed"
      /\ i = Len(log)

(***************************************************************************)
(* C18: every PUT attempt carries the bytes of its range.  The first       *)
(* attempt of a PUT carries what S3 delivered for it, and a retry carries  *)
(* as many bytes as the attempt before it did, so that an attempt whose    *)
(* body matched its Content-Length is never followed by a retry whose body *)
(* does not: a retry never sends a stream that was already read.           *)
(***************************************************************************)
C18_PutBodyMatchesLength ==
  \A i \in DOMAIN log :
    IsPut(i) =>
      IF i > 1 /\ IsPut(i - 1)
      THEN /\ log[i].body = log[i - 1].body
           /\ log[i - 1].body = log[i - 1].len => log[i].body = log[i].len
      ELSE IF variant = "chunked"
      THEN log[i].body = log[i - 1].body
      ELSE log[i].body = fileSize

(***************************************************************************)
(* C19: a transport failure of an outbound request (creation, PUT, probe)  *)
(* that happens at most MAX_RETRIES times in a row is absorbed: the        *)
(* handler fails with a transport error only after more than MAX_RETRIES   *)
(* consecutive failures of the same request.                               *)
(***************************************************************************)
RECURSIVE TrailingFailures(_)
TrailingFailures(l) ==
  IF l = <<>> \/ l[Len(l)].outcome # "error" \/ l[Len(l)].op = "GetObject"
  THEN 0
  ELSE 1 + TrailingFailures(SubSeq(l, 1, Len(l) - 1))

C19_TransientFailuresAreAbsorbed ==
  (pc = "Failed" /\ error.kind = "TransportError") =>
    TrailingFailures(log) > MAX_RETRIES

(***************************************************************************)
(* C20: when every awaited call eventually returns or fails, an invocation *)
(* eventually reaches a terminal state, Succeeded or Failed, and stays in  *)
(* it.  On the way no fetchWithRetry call makes more than MAX_RETRIES + 1  *)
(* attempts and the chunk loop gets at most ceil(fileSize / CHUNK_SIZE)    *)
(* PUTs acknowledged.                                                      *)
(***************************************************************************)
CeilDiv(a, b) == (a + b - 1) \div b

WorkIsBounded ==
  /\ \A c \in DOMAIN calls : calls[c].attempts =< MAX_RETRIES + 1
  /\ variant = "chunked" /\ fileSize # Undefined =>
       Len(AckedPuts) =< CeilDiv(fileSize, CHUNK_SIZE)
  /\ ~(pc = "Succeeded" /\ statusCode # 200)

C20_EveryInvocationTerminates ==
  /\ <>[]Terminal
  /\ []WorkIsBounded
  /\ [][Terminal => UNCHANGED pc]_vars

\* an upload of MaxChunks chunks has succeeded although one of its requests
\* needed every attempt it was allowed
C20_Witness ==
  /\ pc = "Succeeded"
  /\ Len(AckedPuts) = MaxChunks
  /\ \E c \in DOMAIN calls : calls[c].attempts = MAX_RETRIES + 1

(***************************************************************************)
(* C21: when ZENODO_URL is configured, the metadata operations send no     *)
(* request, and so no bearer token, to a URL that does not begin with it:  *)
(* called with such a url, each of the four throws `Invalid data URL`      *)
(* without having sent anything.                                           *)
(***************************************************************************)
BeginsWith(url, base) ==
  \A i \in 1..Len(base) : i =< Len(url) /\ url[i] = base[i]

C21_NoRequestOutsideArchive ==
  Truthy(zenodoUrl) =>
    /\ \A i \in DOMAIN sent : BeginsWith(sent[i].url, zenodoUrl.value)
    /\ (meta.pc # "Idle" /\ ~BeginsWith(meta.url, zenodoUrl.value)) =>
         /\ meta.pc = "Thrown"
         /\ meta.error = "InvalidDataURL"
         /\ \A i \in DOMAIN sent : sent[i].call # meta.calls

\* deleteZenodoEntity was called with a URL of a foreign host that holds
\* the archive URL further on, and has thrown
C21_Witness ==
  /\ Truthy(zenodoUrl)
  /\ meta.op = "deleteZenodoEntity"
  /\ meta.url = <<"e", "/", "z">>
  /\ meta.pc = "Thrown"

(***************************************************************************)
(* C22: for an event of n >= 1 records one invocation transfers the object *)
(* of the first record only: every read is of that object (one unranged   *)
(* read at most), every PUT and the probe go to its file name, the         *)
(* invocation reports on it, and at most one deposition is created; the    *)
(* other records cause no read, no deposition and no PUT.                  *)
(***************************************************************************)
FirstObject == DecodeURIComponent(PlusToSpace(event[1])).value

OnlyFirstRecordIsTransferred ==
  /\ \A i \in DOMAIN log :
       /\ log[i].op = "GetObject" => log[i].key = FirstObject
       /\ log[i].op \in {"PUT", "HEAD"} =>
            log[i].name = EncodeURIComponent(LastSegment(FirstObject))
  /\ Cardinality({i \in DOMAIN log :
                    log[i].op = "GetObject" /\ log[i].start = Undefined}) =< 1
  /\ pc \notin {"Idle", "Failed"} => objectKey = FirstObject

C22_OnlyFirstRecord ==
  /\ OnlyFirstRecordIsTransferred
  /\ depositions =< 1

====
